---- MODULE Spec2Model ----
(***************************************************************************)
(* Worker-pool scheduler of the steel-browser orchestrator: the pool with  *)
(* its available channel and auto-scaling, the worker lifecycle (Start,    *)
(* monitor, waitForReady, Kill, SetSessionID), the SessionManager with its *)
(* TTL sweeper, and the three HTTP handlers that drive them.               *)
(*                                                                         *)
(* A critical section (one mutex hold) or a channel operation is one step  *)
(* and goroutines interleave between steps.  A forward call, which changes *)
(* no orchestrator state, is folded into the step that acts on its result, *)
(* and the pool.Release that ends waitForReady and SetSessionID("") is     *)
(* folded into the step of the critical section before it.                 *)
(***************************************************************************)
EXTENDS Integers, Sequences, FiniteSets, TLC

\* ---------------------------------------------------------------- bounds
MinW == 1            \* --min-workers
MaxW == 2            \* --max-workers, also cap(available)
MaxID == 3           \* worker ids the pool may hand out (nextID <= MaxID)
MaxCrash == 1        \* spontaneous process exits
MaxWfr == 1          \* readiness probes of one worker alive at a time
NumHandlers == 2     \* HTTP requests served, each by its own goroutine
MaxClock == 70       \* seconds the clock runs for

\* ------------------------------------------------------ program constants
maxCreateRetries == 3
sessionTTL == 60                    \* seconds
sweepPeriod == 5                    \* ttlSweeper's ticker, seconds

WorkerIds == 0..(MaxID - 1)
Handlers == 1..NumHandlers
NoWorker == -1
NoSession == 0                      \* the empty string ""
SessionIds == Handlers              \* non-empty session ids: request h is answered id h
PriorSession == NumHandlers + 1     \* id of a session created by an earlier request
SessionKeys == {NoSession, PriorSession} \cup SessionIds   \* keys the map can hold ("" included)

\* The goroutines of the locking view, one per operation that takes a mutex
\* or uses the available channel.
Goroutines == {"Acquire", "handleDeleteSession", "monitor", "FindBySession",
               "removeIdleWorker", "Shutdown", "expireStale"}

WorkerStateStarting == "Starting"
WorkerStateAvailable == "Available"
WorkerStateBusy == "Busy"
WorkerStateUnhealthy == "Unhealthy"
WorkerStateDead == "Dead"

VARIABLES
    \* Pool
    workers,        \* p.workers: sequence of worker ids
    available,      \* p.available: buffered channel, capacity MaxW
    recvq,          \* goroutines blocked receiving from p.available, in arrival order
    nextID,         \* p.nextID
    pendingAdds,    \* p.pendingAdds
    addSpawned,     \* addWorker goroutines launched by Acquire, not yet in their lock section
    apc,            \* per worker id: position of the addWorker run that owns the id
    \* Worker
    state,          \* w.state
    sessionID,      \* w.sessionID
    cmd,            \* w.cmd # nil
    alive,          \* the child process of w.cmd is running
    ready,          \* the child process answers HTTP
    draining,       \* w.draining
    mpc,            \* position of the worker's monitor goroutine
    prevSession,    \* monitor's local prevSession
    wfrProbing,     \* waitForReady goroutines of the worker still probing
    wfrGaveUp,      \* waitForReady goroutines past their 30th failed probe
    \* SessionManager
    sessions,       \* sm.sessions: key -> [worker, stale]
    expired,        \* expireStale's local slice of entries deleted under the lock
    \* handlers
    hpc,            \* position of the request goroutine
    hw,             \* its local worker
    hsid,           \* its session id (parsed from the response, or from the path)
    attempt,        \* handleCreateSession's loop counter
    hresp,          \* HTTP status written, 0 before
    ctxDone,        \* the request's ctx is cancelled or past its deadline
    \* scaleLoop / removeIdleWorker
    idleTicks, spc, rmw,
    \* healthCheckLoop
    hlcur,          \* the worker whose state the loop read and did not skip
    \* environment budgets
    crashes,        \* spontaneous process exits so far
    \* Shutdown
    shutdown,       \* Pool.Shutdown has returned
    \* time
    clock,          \* time.Now(), in seconds since the SessionManager was built
    accessed,       \* per session key: the entry's LastAccessed
    lastSweep,      \* the tick the ttlSweeper served last
    \* locking
    lpc             \* per goroutine of the locking view: the next of its lock and channel operations

poolVars == <<workers, available, recvq, nextID, pendingAdds, addSpawned, apc>>
workerVars == <<state, sessionID, cmd, alive, ready, draining, mpc, prevSession,
                wfrProbing, wfrGaveUp>>
smVars == <<sessions, expired>>
handlerVars == <<hpc, hw, hsid, attempt, hresp, ctxDone>>
loopVars == <<idleTicks, spc, rmw, hlcur>>
timeVars == <<clock, accessed, lastSweep>>
envVars == <<crashes, shutdown, timeVars, lpc>>
vars == <<poolVars, workerVars, smVars, handlerVars, loopVars, envVars>>

\* ---------------------------------------------------------------- helpers
Range(s) == {s[i] : i \in 1..Len(s)}
Count(s, x) == Cardinality({i \in 1..Len(s) : s[i] = x})
InAvailable(w) == w \in Range(available)
RECURSIVE RemoveFirst(_, _)
RemoveFirst(s, x) ==
    IF s = <<>> THEN <<>>
    ELSE IF Head(s) = x THEN Tail(s)
    ELSE <<Head(s)>> \o RemoveFirst(Tail(s), x)

NoEntry == [worker |-> NoWorker, stale |-> FALSE]
HasSession(k) == sessions[k].worker # NoWorker

\* SessionManager.Count: len(sm.sessions).
SessionCount == Cardinality({k \in SessionKeys : HasSession(k)})

\* ------------------------------------------------------------------ Init
\* NewPool has started MinW workers (state Starting, monitor and readiness
\* probe running), the SessionManager is empty, and main has wired OnCrash.
Init ==
    /\ workers = [i \in 1..MinW |-> i - 1]
    /\ available = <<>>
    /\ recvq = <<>>
    /\ nextID = MinW
    /\ pendingAdds = 0
    /\ addSpawned = 0
    /\ apc = [w \in WorkerIds |-> "none"]
    /\ state = [w \in WorkerIds |-> IF w < MinW THEN WorkerStateStarting ELSE WorkerStateDead]
    /\ sessionID = [w \in WorkerIds |-> NoSession]
    /\ cmd = [w \in WorkerIds |-> w < MinW]
    /\ alive = [w \in WorkerIds |-> w < MinW]
    /\ ready = [w \in WorkerIds |-> FALSE]
    /\ draining = [w \in WorkerIds |-> FALSE]
    /\ mpc = [w \in WorkerIds |-> IF w < MinW THEN "wait" ELSE "none"]
    /\ prevSession = [w \in WorkerIds |-> NoSession]
    /\ wfrProbing = [w \in WorkerIds |-> IF w < MinW THEN 1 ELSE 0]
    /\ wfrGaveUp = [w \in WorkerIds |-> 0]
    /\ sessions = [k \in SessionKeys |-> NoEntry]
    /\ expired = {}
    /\ hpc = [h \in Handlers |-> "new"]
    /\ hw = [h \in Handlers |-> NoWorker]
    /\ hsid = [h \in Handlers |-> NoSession]
    /\ attempt = [h \in Handlers |-> 0]
    /\ hresp = [h \in Handlers |-> 0]
    /\ ctxDone = [h \in Handlers |-> FALSE]
    /\ idleTicks = 0
    /\ spc = "tick"
    /\ rmw = NoWorker
    /\ hlcur = NoWorker
    /\ crashes = 0
    /\ shutdown = FALSE
    /\ clock = 0
    /\ accessed = [k \in SessionKeys |-> 0]
    /\ lastSweep = 0
    /\ lpc = [g \in Goroutines |-> 1]

\* The orchestrator after an earlier POST /sessions was served by worker 0:
\* every initial worker is up, worker 0 is Busy with the session, the others
\* wait in available, and the entry PriorSession -> 0 is in the map.
InitServing ==
    /\ workers = [i \in 1..MinW |-> i - 1]
    /\ available = [i \in 1..(MinW - 1) |-> i]
    /\ recvq = <<>>
    /\ nextID = MinW
    /\ pendingAdds = 0
    /\ addSpawned = 0
    /\ apc = [w \in WorkerIds |-> "none"]
    /\ state = [w \in WorkerIds |-> IF w = 0 THEN WorkerStateBusy
                                    ELSE IF w < MinW THEN WorkerStateAvailable
                                    ELSE WorkerStateDead]
    /\ sessionID = [w \in WorkerIds |-> IF w = 0 THEN PriorSession ELSE NoSession]
    /\ cmd = [w \in WorkerIds |-> w < MinW]
    /\ alive = [w \in WorkerIds |-> w < MinW]
    /\ ready = [w \in WorkerIds |-> w < MinW]
    /\ draining = [w \in WorkerIds |-> FALSE]
    /\ mpc = [w \in WorkerIds |-> IF w < MinW THEN "wait" ELSE "none"]
    /\ prevSession = [w \in WorkerIds |-> NoSession]
    /\ wfrProbing = [w \in WorkerIds |-> 0]
    /\ wfrGaveUp = [w \in WorkerIds |-> 0]
    /\ sessions = [k \in SessionKeys |->
                       IF k = PriorSession THEN [worker |-> 0, stale |-> FALSE]
                       ELSE NoEntry]
    /\ expired = {}
    /\ hpc = [h \in Handlers |-> "new"]
    /\ hw = [h \in Handlers |-> NoWorker]
    /\ hsid = [h \in Handlers |-> NoSession]
    /\ attempt = [h \in Handlers |-> 0]
    /\ hresp = [h \in Handlers |-> 0]
    /\ ctxDone = [h \in Handlers |-> FALSE]
    /\ idleTicks = 0
    /\ spc = "tick"
    /\ rmw = NoWorker
    /\ hlcur = NoWorker
    /\ crashes = 0
    /\ shutdown = FALSE
    /\ clock = 0
    /\ accessed = [k \in SessionKeys |-> 0]
    /\ lastSweep = 0
    /\ lpc = [g \in Goroutines |-> 1]

\* ================================================================== Pool
\* Release: non-blocking send on p.available.  A send on a Go channel with a
\* blocked receiver hands the value to the longest-waiting receiver; otherwise
\* it is buffered while there is room, and the default branch drops it.
ReleaseAvailable(w) ==
    IF recvq # <<>> THEN available
    ELSE IF Len(available) < MaxW THEN Append(available, w)
    ELSE available

\* A wait list that wakes its newest entry.
ReceiverNewest == recvq[Len(recvq)]

\* The parked receiver a send wakes: the one parked longest.
Receiver == Head(recvq)

ReleaseRecvq == IF recvq # <<>> THEN RemoveFirst(recvq, Receiver) ELSE recvq
ReleaseHpc(hp) == IF recvq # <<>> THEN [hp EXCEPT ![Receiver] = "fwd"] ELSE hp
ReleaseHw(hwf, w) == IF recvq # <<>> THEN [hwf EXCEPT ![Receiver] = w] ELSE hwf

\* The whole effect of p.Release(w) when the caller is no request handler.
Release(w) ==
    /\ available' = ReleaseAvailable(w)
    /\ recvq' = ReleaseRecvq
    /\ hpc' = ReleaseHpc(hpc)
    /\ hw' = ReleaseHw(hw, w)

\* Kill: SIGKILL to the process of w.cmd, if there is one.
Kill(f, w) == IF cmd[w] THEN [f EXCEPT ![w] = FALSE] ELSE f

\* addWorker's check with the reservations of other runs left out.
AddWorkerHasRoomNoPending == Len(workers) < MaxW

\* addWorker's check under the pool lock.
AddWorkerHasRoom == Len(workers) + pendingAdds < MaxW

\* Acquire, first read: len(p.available) == 0.
AcquireCheckAvailable(h) ==
    /\ hpc[h] = "acq"
    /\ hpc' = [hpc EXCEPT ![h] = IF Len(available) = 0 THEN "acq_total" ELSE "acq_sel"]
    /\ UNCHANGED <<workers, available, recvq, nextID, pendingAdds, addSpawned, apc,
                   workerVars, smVars, hw, hsid, attempt, hresp, ctxDone, loopVars,
                   envVars>>

\* Acquire, second read under RLock: total < max launches `go p.addWorker()`.
AcquireCheckTotal(h) ==
    /\ hpc[h] = "acq_total"
    /\ addSpawned' = IF Len(workers) + pendingAdds < MaxW THEN addSpawned + 1 ELSE addSpawned
    /\ hpc' = [hpc EXCEPT ![h] = "acq_sel"]
    /\ UNCHANGED <<workers, available, recvq, nextID, pendingAdds, apc,
                   workerVars, smVars, hw, hsid, attempt, hresp, ctxDone, loopVars,
                   envVars>>

\* The request's context ends (client gone, or the 5 min deadline) while
\* Acquire has not reached its select.
CtxDone(h) ==
    /\ hpc[h] \in {"acq", "acq_total", "acq_sel"}
    /\ ~ctxDone[h]
    /\ ctxDone' = [ctxDone EXCEPT ![h] = TRUE]
    /\ UNCHANGED <<poolVars, workerVars, smVars, hpc, hw, hsid, attempt, hresp,
                   loopVars, envVars>>

\* Acquire's select, receive case: take the head of the buffer, whether or
\* not ctx.Done() is ready too; with nothing ready, park on the channel.
AcquireSelect(h) ==
    /\ hpc[h] = "acq_sel"
    /\ IF Len(available) > 0
       THEN /\ hw' = [hw EXCEPT ![h] = Head(available)]
            /\ available' = Tail(available)
            /\ hpc' = [hpc EXCEPT ![h] = "fwd"]
            /\ UNCHANGED recvq
       ELSE /\ ~ctxDone[h]
            /\ recvq' = Append(recvq, h)
            /\ hpc' = [hpc EXCEPT ![h] = "acq_blocked"]
            /\ UNCHANGED <<hw, available>>
    /\ UNCHANGED <<workers, nextID, pendingAdds, addSpawned, apc,
                   workerVars, smVars, hsid, attempt, hresp, ctxDone, loopVars, envVars>>

\* A ctx.Done() case that drains a worker waiting in the buffer.
AcquireTimeoutDrains == IF available # <<>> THEN Tail(available) ELSE available

\* What the ctx.Done() case of Acquire's select leaves in p.available.
AcquireTimeoutAvailable == available

\* Acquire's select, ctx.Done() case: taken when the context is done at the
\* select, or ends while the goroutine is parked; handleCreateSession
\* answers 503.
AcquireTimeout(h) ==
    /\ \/ hpc[h] = "acq_sel" /\ ctxDone[h]
       \/ hpc[h] = "acq_blocked"
    /\ recvq' = RemoveFirst(recvq, h)
    /\ available' = AcquireTimeoutAvailable
    /\ hpc' = [hpc EXCEPT ![h] = "done"]
    /\ hresp' = [hresp EXCEPT ![h] = 503]
    /\ ctxDone' = [ctxDone EXCEPT ![h] = TRUE]
    /\ UNCHANGED <<workers, nextID, pendingAdds, addSpawned, apc,
                   workerVars, smVars, hw, hsid, attempt, loopVars, envVars>>

\* addWorker, first critical section: give up, or reserve an id and a slot.
AddWorkerReserve ==
    /\ addSpawned > 0
    /\ addSpawned' = addSpawned - 1
    /\ IF AddWorkerHasRoom
       THEN /\ nextID < MaxID
            /\ apc' = [apc EXCEPT ![nextID] = "port"]
            /\ nextID' = nextID + 1
            /\ pendingAdds' = pendingAdds + 1
       ELSE UNCHANGED <<apc, nextID, pendingAdds>>
    /\ UNCHANGED <<workers, available, recvq, workerVars, smVars, handlerVars,
                   loopVars, envVars>>

\* A failure path that returns without giving the reservation back.
AddWorkerPortFailKeepsSlot(w) ==
    /\ apc[w] = "port"
    /\ apc' = [apc EXCEPT ![w] = "failed"]
    /\ UNCHANGED <<workers, available, recvq, nextID, pendingAdds, addSpawned,
                   workerVars, smVars, handlerVars, loopVars, envVars>>

\* A failure path that hands the id back with the reservation.
AddWorkerPortFailReturnsId(w) ==
    /\ apc[w] = "port"
    /\ pendingAdds' = pendingAdds - 1
    /\ nextID' = nextID - 1
    /\ apc' = [apc EXCEPT ![w] = "failed"]
    /\ UNCHANGED <<workers, available, recvq, addSpawned, workerVars, smVars,
                   handlerVars, loopVars, envVars>>

\* addWorker: findFreePort fails.
AddWorkerPortFail(w) ==
    /\ apc[w] = "port"
    /\ pendingAdds' = pendingAdds - 1
    /\ apc' = [apc EXCEPT ![w] = "failed"]
    /\ UNCHANGED <<workers, available, recvq, nextID, addSpawned, workerVars, smVars,
                   handlerVars, loopVars, envVars>>

\* addWorker: findFreePort succeeds, NewWorker, OnCrash wired.
AddWorkerPortOk(w) ==
    /\ apc[w] = "port"
    /\ apc' = [apc EXCEPT ![w] = "start"]
    /\ UNCHANGED <<workers, available, recvq, nextID, pendingAdds, addSpawned, workerVars,
                   smVars, handlerVars, loopVars, envVars>>

\* A spawn failure that returns with the reservation still counted.
AddWorkerStartFailKeepsSlot(w) ==
    /\ apc[w] = "start"
    /\ apc' = [apc EXCEPT ![w] = "spawnfailed"]
    /\ UNCHANGED <<workers, available, recvq, nextID, pendingAdds, addSpawned,
                   workerVars, smVars, handlerVars, loopVars, envVars>>

\* addWorker: w.Start() fails (cmd.Start error).
AddWorkerStartFail(w) ==
    /\ apc[w] = "start"
    /\ pendingAdds' = pendingAdds - 1
    /\ apc' = [apc EXCEPT ![w] = "spawnfailed"]
    /\ UNCHANGED <<workers, available, recvq, nextID, addSpawned, workerVars, smVars,
                   handlerVars, loopVars, envVars>>

\* ================================================================ Worker
\* A guard that refuses only a worker that holds a session.
StartAllowedUnlessBusy(w) == state[w] # WorkerStateBusy

\* Start's guard: the state is Dead or Unhealthy.
StartAllowed(w) == state[w] \in {WorkerStateDead, WorkerStateUnhealthy}

\* Start, success path: spawn, state Starting, session cleared, monitor and
\* waitForReady launched.
StartSpawn(w) ==
    /\ StartAllowed(w)
    /\ wfrProbing[w] + wfrGaveUp[w] < MaxWfr
    /\ cmd' = [cmd EXCEPT ![w] = TRUE]
    /\ alive' = [alive EXCEPT ![w] = TRUE]
    /\ ready' = [ready EXCEPT ![w] = FALSE]
    /\ state' = [state EXCEPT ![w] = WorkerStateStarting]
    /\ sessionID' = [sessionID EXCEPT ![w] = NoSession]
    /\ mpc' = [mpc EXCEPT ![w] = "wait"]
    /\ wfrProbing' = [wfrProbing EXCEPT ![w] = @ + 1]
    /\ UNCHANGED <<draining, prevSession, wfrGaveUp>>

\* addWorker: w.Start() succeeds.
AddWorkerStartOk(w) ==
    /\ apc[w] = "start"
    /\ StartSpawn(w)
    /\ apc' = [apc EXCEPT ![w] = "append"]
    /\ UNCHANGED <<workers, available, recvq, nextID, pendingAdds, addSpawned, smVars,
                   handlerVars, loopVars, envVars>>

\* addWorker, last critical section: append and give the reservation back.
AddWorkerAppend(w) ==
    /\ apc[w] = "append"
    /\ workers' = Append(workers, w)
    /\ pendingAdds' = pendingAdds - 1
    /\ apc' = [apc EXCEPT ![w] = "done"]
    /\ UNCHANGED <<available, recvq, nextID, addSpawned, workerVars, smVars,
                   handlerVars, loopVars, envVars>>

\* The child process starts answering HTTP.
ProcReady(w) ==
    /\ alive[w] /\ ~ready[w]
    /\ ready' = [ready EXCEPT ![w] = TRUE]
    /\ UNCHANGED <<poolVars, state, sessionID, cmd, alive, draining, mpc, prevSession,
                   wfrProbing, wfrGaveUp, smVars, handlerVars, loopVars, envVars>>

\* The child process exits on its own.
ProcExit(w) ==
    /\ alive[w]
    /\ crashes < MaxCrash
    /\ crashes' = crashes + 1
    /\ alive' = [alive EXCEPT ![w] = FALSE]
    /\ ready' = [ready EXCEPT ![w] = FALSE]
    /\ UNCHANGED <<poolVars, state, sessionID, cmd, draining, mpc, prevSession,
                   wfrProbing, wfrGaveUp, smVars, handlerVars, loopVars, shutdown,
                   timeVars, lpc>>

\* SetSessionID's critical section: the state a session id leaves the worker in.
SetSessionState(id) == IF id = NoSession THEN WorkerStateAvailable ELSE WorkerStateBusy

\* A monitor that does not wait for the process to exit.
MonitorObserveEarly(w) ==
    /\ mpc[w] = "wait"
    /\ prevSession' = [prevSession EXCEPT ![w] = sessionID[w]]
    /\ state' = [state EXCEPT ![w] = WorkerStateDead]
    /\ sessionID' = [sessionID EXCEPT ![w] = NoSession]
    /\ mpc' = [mpc EXCEPT ![w] = "exited"]
    /\ UNCHANGED <<poolVars, cmd, alive, ready, draining, wfrProbing, wfrGaveUp, smVars,
                   handlerVars, loopVars, envVars>>

\* monitor: cmd.Wait() has returned; one critical section reads the session,
\* sets Dead and clears the session.
MonitorObserveExit(w) ==
    /\ mpc[w] = "wait"
    /\ ~alive[w]
    /\ prevSession' = [prevSession EXCEPT ![w] = sessionID[w]]
    /\ state' = [state EXCEPT ![w] = WorkerStateDead]
    /\ sessionID' = [sessionID EXCEPT ![w] = NoSession]
    /\ mpc' = [mpc EXCEPT ![w] = "exited"]
    /\ UNCHANGED <<poolVars, cmd, alive, ready, draining, wfrProbing, wfrGaveUp, smVars,
                   handlerVars, loopVars, envVars>>

\* A Remove that hands out the worker and leaves the entry in the map.
SessionsRemoveKeeps(k) == sessions

\* SessionManager.Remove: the map without the key.
SessionsRemove(k) == [sessions EXCEPT ![k] = NoEntry]

\* LastAccessed = time.Now() on the entry of key k.
Touch(k) == [accessed EXCEPT ![k] = clock]

\* SessionManager.Add: insert or overwrite, last access now.
SessionsAdd(k, w) == [sessions EXCEPT ![k] = [worker |-> w, stale |-> FALSE]]

\* A callback keyed on the session the worker holds when the callback runs.
OnCrashSessionsLate(w) ==
    IF sessionID[w] # NoSession THEN SessionsRemove(sessionID[w]) ELSE sessions

\* The session the monitor hands to OnCrash (pool.CrashHandler -> sessions.Remove).
OnCrashSessions(w) ==
    IF prevSession[w] # NoSession THEN SessionsRemove(prevSession[w]) ELSE sessions

\* Where the monitor goes after the crash callback: a drained worker is not
\* restarted, any other enters the 1 s backoff.
MonitorAfterCrash(w) == IF draining[w] THEN "none" ELSE "sleep"

\* monitor: OnCrash(prevSession) if a session was held.
MonitorNotify(w) ==
    /\ mpc[w] = "exited"
    /\ sessions' = OnCrashSessions(w)
    /\ prevSession' = [prevSession EXCEPT ![w] = NoSession]
    /\ mpc' = [mpc EXCEPT ![w] = MonitorAfterCrash(w)]
    /\ UNCHANGED <<poolVars, state, sessionID, cmd, alive, ready, draining, wfrProbing,
                   wfrGaveUp, expired, handlerVars, loopVars, envVars>>

\* monitor after the backoff: w.Start() spawns a new child.
MonitorRestart(w) ==
    /\ mpc[w] = "sleep"
    /\ StartSpawn(w)
    /\ UNCHANGED <<poolVars, smVars, handlerVars, loopVars, envVars>>

\* monitor after the backoff: w.Start() returns "already running"; the
\* monitor logs it and returns.
MonitorRestartRefused(w) ==
    /\ mpc[w] = "sleep"
    /\ ~StartAllowed(w)
    /\ mpc' = [mpc EXCEPT ![w] = "refused"]
    /\ UNCHANGED <<poolVars, state, sessionID, cmd, alive, ready, draining, prevSession,
                   wfrProbing, wfrGaveUp, smVars, handlerVars, loopVars, envVars>>

\* monitor after the backoff: cmd.Start() fails; the monitor logs it and returns.
MonitorRestartFail(w) ==
    /\ mpc[w] = "sleep"
    /\ StartAllowed(w)
    /\ mpc' = [mpc EXCEPT ![w] = "spawnfailed"]
    /\ UNCHANGED <<poolVars, state, sessionID, cmd, alive, ready, draining, prevSession,
                   wfrProbing, wfrGaveUp, smVars, handlerVars, loopVars, envVars>>

\* waitForReady: the state a successful probe leaves the worker in.
ReadyState(w) ==
    IF state[w] = WorkerStateStarting THEN WorkerStateAvailable ELSE state[w]

\* waitForReady: a probe gets 200; Starting becomes Available, and the worker
\* is released whatever its state.
WaitForReadyOk(w) ==
    /\ wfrProbing[w] > 0
    /\ alive[w] /\ ready[w]
    /\ state' = [state EXCEPT ![w] = ReadyState(w)]
    /\ wfrProbing' = [wfrProbing EXCEPT ![w] = @ - 1]
    /\ Release(w)
    /\ UNCHANGED <<workers, nextID, pendingAdds, addSpawned, apc, sessionID, cmd, alive,
                   ready, draining, mpc, prevSession, wfrGaveUp, smVars, hsid, attempt,
                   hresp, ctxDone, loopVars, envVars>>

\* waitForReady: the 30th probe fails; the goroutine leaves the loop.
WaitForReadyExhaust(w) ==
    /\ wfrProbing[w] > 0
    /\ ~(alive[w] /\ ready[w])
    /\ wfrProbing' = [wfrProbing EXCEPT ![w] = @ - 1]
    /\ wfrGaveUp' = [wfrGaveUp EXCEPT ![w] = @ + 1]
    /\ UNCHANGED <<poolVars, state, sessionID, cmd, alive, ready, draining, mpc,
                   prevSession, smVars, handlerVars, loopVars, envVars>>

\* waitForReady: the final, unconditional w.state = Unhealthy.
WaitForReadyGiveUp(w) ==
    /\ wfrGaveUp[w] > 0
    /\ wfrGaveUp' = [wfrGaveUp EXCEPT ![w] = @ - 1]
    /\ state' = [state EXCEPT ![w] = WorkerStateUnhealthy]
    /\ UNCHANGED <<poolVars, sessionID, cmd, alive, ready, draining, mpc, prevSession,
                   wfrProbing, smVars, handlerVars, loopVars, envVars>>

\* ======================================================== SessionManager
\* A request in flight that has touched key k within its last few seconds
\* (Add, Get; every forward is cut off at 5 s).
Touching(k) == \E h \in Handlers : hsid[h] = k /\ hpc[h] \in {"setsid", "getfwd"}

\* An entry's last access falls more than sessionTTL (60 s) behind the clock.
TimePasses(k) ==
    /\ HasSession(k) /\ ~sessions[k].stale
    /\ ~Touching(k)
    /\ sessions' = [sessions EXCEPT ![k].stale = TRUE]
    /\ UNCHANGED <<poolVars, workerVars, expired, handlerVars, loopVars, envVars>>

StaleKeys == {k \in SessionKeys : HasSession(k) /\ sessions[k].stale}

\* A sweeper that evicts in one phase: with the lock held it deletes a stale
\* entry, forwards the DELETE and calls SetSessionID("") on its worker.
ExpireStaleOnePhase ==
    /\ expired = {}
    /\ \E k \in StaleKeys :
          /\ sessions' = [sessions EXCEPT ![k] = NoEntry]
          /\ sessionID' = [sessionID EXCEPT ![sessions[k].worker] = NoSession]
          /\ state' = [state EXCEPT ![sessions[k].worker] = SetSessionState(NoSession)]
          /\ Release(sessions[k].worker)
    /\ UNCHANGED <<workers, nextID, pendingAdds, addSpawned, apc, cmd, alive, ready,
                   draining, mpc, prevSession, wfrProbing, wfrGaveUp, expired, hsid,
                   attempt, hresp, ctxDone, loopVars, envVars>>

\* expireStale, under the lock: collect and delete every stale entry.
ExpireStale ==
    /\ expired = {}
    /\ StaleKeys # {}
    /\ expired' = {<<k, sessions[k].worker>> : k \in StaleKeys}
    /\ sessions' = [k \in SessionKeys |-> IF k \in StaleKeys THEN NoEntry ELSE sessions[k]]
    /\ UNCHANGED <<poolVars, workerVars, handlerVars, loopVars, envVars>>

\* expireStale, outside the lock, one expired entry: the DELETE forward
\* (its result is ignored), then SetSessionID("") on the worker.
ExpireRelease(e) ==
    /\ e \in expired
    /\ expired' = expired \ {e}
    /\ sessionID' = [sessionID EXCEPT ![e[2]] = NoSession]
    /\ state' = [state EXCEPT ![e[2]] = SetSessionState(NoSession)]
    /\ Release(e[2])
    /\ UNCHANGED <<workers, nextID, pendingAdds, addSpawned, apc, cmd, alive, ready,
                   draining, mpc, prevSession, wfrProbing, wfrGaveUp, sessions, hsid,
                   attempt, hresp, ctxDone, loopVars, envVars>>

\* ------------------------------------------------- the sweeper on a clock
\* One second passes.  A tick of the sweeper's ticker that has come due is
\* served before the clock moves on.
SweepDue == clock > 0 /\ clock % sweepPeriod = 0 /\ lastSweep < clock

ClockTick ==
    /\ clock < MaxClock
    /\ ~SweepDue
    /\ clock' = clock + 1
    /\ UNCHANGED <<poolVars, workerVars, smVars, handlerVars, loopVars, crashes,
                   shutdown, accessed, lastSweep, lpc>>

\* expireStale's test with >= for >.
TimedOutAtTTL(k) == clock - accessed[k] >= sessionTTL

\* expireStale's test: time.Since(entry.LastAccessed) > sessionTTL.
TimedOut(k) == clock - accessed[k] > sessionTTL

TimedOutKeys == {k \in SessionKeys : HasSession(k) /\ TimedOut(k)}

\* ttlSweeper serves a tick: expireStale under the lock collects and deletes
\* every entry whose last access is more than sessionTTL back.
TimedSweep ==
    /\ SweepDue
    /\ expired = {}
    /\ lastSweep' = clock
    /\ expired' = {<<k, sessions[k].worker>> : k \in TimedOutKeys}
    /\ sessions' = [k \in SessionKeys |->
                        IF k \in TimedOutKeys THEN NoEntry ELSE sessions[k]]
    /\ UNCHANGED <<poolVars, workerVars, handlerVars, loopVars, crashes, shutdown,
                   clock, accessed, lpc>>

\* ============================================================== handlers
\* POST /sessions arrives: handleCreateSession enters its retry loop.
CreateBegin(h) ==
    /\ hpc[h] = "new"
    /\ hpc' = [hpc EXCEPT ![h] = "acq"]
    /\ attempt' = [attempt EXCEPT ![h] = 0]
    /\ hresp' = [hresp EXCEPT ![h] = 0]
    /\ hsid' = [hsid EXCEPT ![h] = NoSession]
    /\ ctxDone' = [ctxDone EXCEPT ![h] = FALSE]
    /\ UNCHANGED <<poolVars, workerVars, smVars, hw, loopVars, envVars>>

\* A retry loop that grants one attempt more.
RetryPcOneMore(h) == IF attempt[h] + 1 <= maxCreateRetries THEN "acq" ELSE "done"

\* The retry loop after a failed attempt: next attempt, or 502 after the last.
RetryPc(h) == IF attempt[h] + 1 < maxCreateRetries THEN "acq" ELSE "done"
RetryResp(h) == IF attempt[h] + 1 < maxCreateRetries THEN 0 ELSE 502

\* A failed attempt: worker.Kill(), then `continue`.
CreateAttemptFailed(h, err) ==
    /\ alive' = Kill(alive, hw[h])
    /\ ready' = Kill(ready, hw[h])
    /\ attempt' = [attempt EXCEPT ![h] = @ + 1]
    /\ hpc' = [hpc EXCEPT ![h] = RetryPc(h)]
    /\ hresp' = [hresp EXCEPT ![h] = RetryResp(h)]
    /\ hw' = [hw EXCEPT ![h] = NoWorker]
    /\ ctxDone' = [ctxDone EXCEPT ![h] = @ \/ RetryPc(h) = "done"]
    /\ UNCHANGED <<poolVars, state, sessionID, cmd, draining, mpc, prevSession,
                   wfrProbing, wfrGaveUp, smVars, hsid, loopVars, envVars>>

\* forwardCreateSession returns a transport error.
CreateForwardFail(h) ==
    /\ hpc[h] = "fwd"
    /\ CreateAttemptFailed(h, "forward")

\* The worker answers, json.Unmarshal fails.
CreateBadResponse(h) ==
    /\ hpc[h] = "fwd"
    /\ alive[hw[h]] /\ ready[hw[h]]
    /\ CreateAttemptFailed(h, "parse")

\* The worker answers with a parseable body; sessions.Add(id, worker).
CreateRegister(h, id) ==
    /\ hpc[h] = "fwd"
    /\ alive[hw[h]] /\ ready[hw[h]]
    /\ sessions' = SessionsAdd(id, hw[h])
    /\ accessed' = Touch(id)
    /\ hsid' = [hsid EXCEPT ![h] = id]
    /\ hpc' = [hpc EXCEPT ![h] = "setsid"]
    /\ UNCHANGED <<poolVars, workerVars, expired, hw, attempt, hresp, ctxDone,
                   loopVars, crashes, shutdown, clock, lastSweep, lpc>>

\* The body carries a fresh id minted by the worker.
CreateForwardOk(h) ==
    CreateRegister(h, h)

\* The body parses but carries no id (an upstream HTTP error body).
CreateForwardNoId(h) ==
    CreateRegister(h, NoSession)

\* The status the worker answered with, passed on by WriteHeader(statusCode):
\* 201 with a session, an error status with a body that carries no id.
CreateStatus(id) == IF id = NoSession THEN 500 ELSE 201

\* worker.SetSessionID(id), the response, and the deferred cancel().
CreateSetSession(h) ==
    /\ hpc[h] = "setsid"
    /\ sessionID' = [sessionID EXCEPT ![hw[h]] = hsid[h]]
    /\ state' = [state EXCEPT ![hw[h]] = SetSessionState(hsid[h])]
    /\ IF hsid[h] = NoSession
       THEN /\ available' = ReleaseAvailable(hw[h])
            /\ recvq' = ReleaseRecvq
            /\ hpc' = ReleaseHpc([hpc EXCEPT ![h] = "done"])
            /\ hw' = ReleaseHw([hw EXCEPT ![h] = NoWorker], hw[h])
       ELSE /\ hpc' = [hpc EXCEPT ![h] = "done"]
            /\ hw' = [hw EXCEPT ![h] = NoWorker]
            /\ UNCHANGED <<available, recvq>>
    /\ hresp' = [hresp EXCEPT ![h] = CreateStatus(hsid[h])]
    /\ ctxDone' = [ctxDone EXCEPT ![h] = TRUE]
    /\ UNCHANGED <<workers, nextID, pendingAdds, addSpawned, apc, cmd, alive, ready,
                   draining, mpc, prevSession, wfrProbing, wfrGaveUp, smVars, hsid,
                   attempt, loopVars, envVars>>

\* A client can name a session id only after a create answered 201 with it;
\* the id of the earlier session is in its client's hands from the start.
Issued(k) ==
    IF k \in Handlers THEN hpc[k] = "done" /\ hresp[k] = 201 /\ hsid[k] = k
    ELSE k = PriorSession

\* A lookup that leaves a mark on the key it did not find.
GetMissingMarks(h, k) ==
    /\ hpc[h] = "new"
    /\ ~HasSession(k)
    /\ sessions' = [sessions EXCEPT ![k].stale = TRUE]
    /\ hresp' = [hresp EXCEPT ![h] = 404]
    /\ hsid' = [hsid EXCEPT ![h] = k]
    /\ UNCHANGED <<poolVars, workerVars, expired, hpc, hw, attempt, ctxDone, loopVars,
                   envVars>>

\* GET /sessions/k: sessions.Get finds no entry, 404.
GetMissing(h, k) ==
    /\ hpc[h] = "new"
    /\ ~HasSession(k)
    /\ hresp' = [hresp EXCEPT ![h] = 404]
    /\ hsid' = [hsid EXCEPT ![h] = k]
    /\ UNCHANGED <<poolVars, workerVars, smVars, hpc, hw, attempt, ctxDone, loopVars,
                   envVars>>

\* GET /sessions/k: sessions.Get finds the entry and refreshes its last access.
GetBegin(h, k) ==
    /\ hpc[h] = "new"
    /\ Issued(k)
    /\ HasSession(k)
    /\ sessions' = [sessions EXCEPT ![k].stale = FALSE]
    /\ accessed' = Touch(k)
    /\ hw' = [hw EXCEPT ![h] = sessions[k].worker]
    /\ hsid' = [hsid EXCEPT ![h] = k]
    /\ hpc' = [hpc EXCEPT ![h] = "getfwd"]
    /\ hresp' = [hresp EXCEPT ![h] = 0]
    /\ UNCHANGED <<poolVars, workerVars, expired, attempt, ctxDone, loopVars, crashes,
                   shutdown, clock, lastSweep, lpc>>

\* forwardGetSession succeeds: the worker's answer is passed on.
GetForwardOk(h) ==
    /\ hpc[h] = "getfwd"
    /\ alive[hw[h]] /\ ready[hw[h]]
    /\ hpc' = [hpc EXCEPT ![h] = "done"]
    /\ hw' = [hw EXCEPT ![h] = NoWorker]
    /\ hresp' = [hresp EXCEPT ![h] = 200]
    /\ UNCHANGED <<poolVars, workerVars, smVars, hsid, attempt, ctxDone, loopVars,
                   envVars>>

\* forwardGetSession fails: sessions.Remove, worker.Kill, 404.
GetForwardFail(h) ==
    /\ hpc[h] = "getfwd"
    /\ sessions' = SessionsRemove(hsid[h])
    /\ alive' = Kill(alive, hw[h])
    /\ ready' = Kill(ready, hw[h])
    /\ hpc' = [hpc EXCEPT ![h] = "done"]
    /\ hw' = [hw EXCEPT ![h] = NoWorker]
    /\ hresp' = [hresp EXCEPT ![h] = 404]
    /\ UNCHANGED <<poolVars, state, sessionID, cmd, draining, mpc, prevSession,
                   wfrProbing, wfrGaveUp, expired, hsid, attempt, ctxDone, loopVars,
                   envVars>>

\* DELETE /sessions/k: sessions.Remove finds no entry, 404.
DeleteMissing(h, k) ==
    /\ hpc[h] = "new"
    /\ ~HasSession(k)
    /\ hresp' = [hresp EXCEPT ![h] = 404]
    /\ hsid' = [hsid EXCEPT ![h] = k]
    /\ UNCHANGED <<poolVars, workerVars, smVars, hpc, hw, attempt, ctxDone, loopVars,
                   envVars>>

\* DELETE /sessions/k: sessions.Remove returns the owning worker.
DeleteBegin(h, k) ==
    /\ hpc[h] = "new"
    /\ Issued(k)
    /\ HasSession(k)
    /\ sessions' = SessionsRemove(k)
    /\ hw' = [hw EXCEPT ![h] = sessions[k].worker]
    /\ hsid' = [hsid EXCEPT ![h] = k]
    /\ hpc' = [hpc EXCEPT ![h] = "delfwd"]
    /\ hresp' = [hresp EXCEPT ![h] = 0]
    /\ UNCHANGED <<poolVars, workerVars, expired, attempt, ctxDone, loopVars, envVars>>

\* deleteSessionFromWorker returns a transport error (code 0) or the worker's
\* status; worker.SetSessionID(""); 204 on error, else the worker's status.
DeleteFinish(h, code) ==
    /\ hpc[h] = "delfwd"
    /\ code # 0 => (alive[hw[h]] /\ ready[hw[h]])
    /\ sessionID' = [sessionID EXCEPT ![hw[h]] = NoSession]
    /\ state' = [state EXCEPT ![hw[h]] = SetSessionState(NoSession)]
    /\ available' = ReleaseAvailable(hw[h])
    /\ recvq' = ReleaseRecvq
    /\ hpc' = ReleaseHpc([hpc EXCEPT ![h] = "done"])
    /\ hw' = ReleaseHw([hw EXCEPT ![h] = NoWorker], hw[h])
    /\ hresp' = [hresp EXCEPT ![h] = IF code = 0 THEN 204 ELSE code]
    /\ UNCHANGED <<workers, nextID, pendingAdds, addSpawned, apc, cmd, alive, ready,
                   draining, mpc, prevSession, wfrProbing, wfrGaveUp, smVars, hsid,
                   attempt, ctxDone, loopVars, envVars>>

\* ============================================================= scaleLoop
\* A counter that counts every tick with an idle worker, whatever the size
\* of the pool.
IdleTicksIgnoringMin ==
    IF Len(available) > 0 THEN idleTicks + 1 ELSE 0

\* A counter that a tick without idleness leaves as it is.
IdleTicksNoReset ==
    IF Len(available) > 0 /\ Len(workers) > MinW THEN idleTicks + 1 ELSE idleTicks

\* One tick: the counter after reading len(workers) and len(available).
IdleTicksAfterTick ==
    IF Len(available) > 0 /\ Len(workers) > MinW THEN idleTicks + 1 ELSE 0

\* scaleLoop, one tick; the second consecutive idle tick calls removeIdleWorker.
ScaleTick ==
    /\ spc = "tick"
    /\ IdleTicksAfterTick # idleTicks
    /\ IF IdleTicksAfterTick >= 2
       THEN idleTicks' = 0 /\ spc' = "remove"
       ELSE idleTicks' = IdleTicksAfterTick /\ UNCHANGED spc
    /\ UNCHANGED <<poolVars, workerVars, smVars, handlerVars, rmw, hlcur, envVars>>

\* removeIdleWorker's select, receive case: pop one idle worker.
RemoveIdlePop ==
    /\ spc = "remove"
    /\ Len(available) > 0
    /\ rmw' = Head(available)
    /\ available' = Tail(available)
    /\ spc' = "drain"
    /\ UNCHANGED <<workers, recvq, nextID, pendingAdds, addSpawned, apc, workerVars,
                   smVars, handlerVars, idleTicks, hlcur, envVars>>

\* removeIdleWorker's select, default case: nothing idle, skip.
RemoveIdleSkip ==
    /\ spc = "remove"
    /\ Len(available) = 0
    /\ spc' = "tick"
    /\ UNCHANGED <<poolVars, workerVars, smVars, handlerVars, idleTicks, rmw, hlcur,
                   envVars>>

\* p.workers without the first occurrence of w (the loop with break).
WorkersWithout(w) == RemoveFirst(workers, w)

\* Worker.Drain: set the draining flag.
Drain(w) == [draining EXCEPT ![w] = TRUE]

\* removeIdleWorker after the pop: remove from p.workers, Drain, Kill.
RemoveIdleFinish ==
    /\ spc = "drain"
    /\ workers' = WorkersWithout(rmw)
    /\ draining' = Drain(rmw)
    /\ alive' = Kill(alive, rmw)
    /\ ready' = Kill(ready, rmw)
    /\ rmw' = NoWorker
    /\ spc' = "tick"
    /\ UNCHANGED <<available, recvq, nextID, pendingAdds, addSpawned, apc, state,
                   sessionID, cmd, mpc, prevSession, wfrProbing, wfrGaveUp, smVars,
                   handlerVars, idleTicks, hlcur, envVars>>

\* ============================================================== Shutdown
\* The workers Shutdown's loop visits: the members of p.workers.
ShutdownWorkers == Range(workers)

\* Shutdown: with the pool lock held, Drain and Kill every member of
\* p.workers.
Shutdown ==
    /\ ~shutdown
    /\ draining' = [w \in WorkerIds |->
                        IF w \in ShutdownWorkers THEN Drain(w)[w] ELSE draining[w]]
    /\ alive' = [w \in WorkerIds |->
                     IF w \in ShutdownWorkers THEN Kill(alive, w)[w] ELSE alive[w]]
    /\ ready' = [w \in WorkerIds |->
                     IF w \in ShutdownWorkers THEN Kill(ready, w)[w] ELSE ready[w]]
    /\ shutdown' = TRUE
    /\ UNCHANGED <<poolVars, state, sessionID, cmd, mpc, prevSession, wfrProbing,
                   wfrGaveUp, smVars, handlerVars, loopVars, crashes, timeVars, lpc>>

\* ======================================================= healthCheckLoop
\* The workers a snapshot of p.workers can hold: every worker that is, or
\* was when the tick began, a member of the slice.
Snapshot == {w \in WorkerIds : w < MinW \/ apc[w] = "done"}

\* The loop skips a worker whose state reads Dead or Starting.
HealthSkips(w) == state[w] \in {WorkerStateDead, WorkerStateStarting}

\* Next worker of the snapshot: w.State() read.
HealthReadState(w) ==
    /\ hlcur = NoWorker
    /\ w \in Snapshot
    /\ hlcur' = IF HealthSkips(w) THEN NoWorker ELSE w
    /\ UNCHANGED <<poolVars, workerVars, smVars, handlerVars, idleTicks, spc, rmw, envVars>>

\* w.HealthCheck() gets 200.
HealthCheckPass ==
    /\ hlcur # NoWorker
    /\ alive[hlcur] /\ ready[hlcur]
    /\ hlcur' = NoWorker
    /\ UNCHANGED <<poolVars, workerVars, smVars, handlerVars, idleTicks, spc, rmw, envVars>>

\* w.HealthCheck() fails (no answer within 2 s, or no 200): w.Kill().
HealthCheckFailKill ==
    /\ hlcur # NoWorker
    /\ ~(alive[hlcur] /\ ready[hlcur])
    /\ alive' = Kill(alive, hlcur)
    /\ ready' = Kill(ready, hlcur)
    /\ hlcur' = NoWorker
    /\ UNCHANGED <<poolVars, state, sessionID, cmd, draining, mpc, prevSession,
                   wfrProbing, wfrGaveUp, smVars, handlerVars, idleTicks, spc, rmw, envVars>>

\* ================================================================== Next
\* handleCreateSession with Pool.Acquire.
CreateStep(h) ==
    \/ CreateBegin(h)
    \/ AcquireCheckAvailable(h)
    \/ AcquireCheckTotal(h)
    \/ AcquireSelect(h)
    \/ CtxDone(h)
    \/ AcquireTimeout(h)
    \/ CreateForwardFail(h)
    \/ CreateBadResponse(h)
    \/ CreateForwardOk(h)
    \/ CreateForwardNoId(h)
    \/ CreateSetSession(h)

\* handleGetSession and handleDeleteSession.
GetDeleteStep(h) ==
    \/ GetForwardOk(h)
    \/ GetForwardFail(h)
    \/ \E k \in SessionIds : GetMissing(h, k)
    \/ \E k \in SessionIds : GetBegin(h, k)
    \/ \E k \in SessionIds : DeleteMissing(h, k)
    \/ \E k \in SessionIds : DeleteBegin(h, k)
    \/ \E code \in {0, 204, 404} : DeleteFinish(h, code)

\* Pool.addWorker.
AddWorkerStep ==
    \/ AddWorkerReserve
    \/ \E w \in WorkerIds :
        \/ AddWorkerPortFail(w)
        \/ AddWorkerPortOk(w)
        \/ AddWorkerStartFail(w)
        \/ AddWorkerStartOk(w)
        \/ AddWorkerAppend(w)

\* The child process, Worker.monitor and Worker.waitForReady.
WorkerStep(w) ==
    \/ ProcReady(w)
    \/ ProcExit(w)
    \/ MonitorObserveExit(w)
    \/ MonitorNotify(w)
    \/ MonitorRestart(w)
    \/ MonitorRestartRefused(w)
    \/ MonitorRestartFail(w)
    \/ WaitForReadyOk(w)
    \/ WaitForReadyExhaust(w)
    \/ WaitForReadyGiveUp(w)

\* SessionManager.ttlSweeper.
SweeperStep ==
    \/ \E k \in SessionKeys : TimePasses(k)
    \/ ExpireStale
    \/ \E e \in expired : ExpireRelease(e)

\* Pool.scaleLoop with removeIdleWorker.
ScaleStep ==
    \/ ScaleTick
    \/ RemoveIdlePop
    \/ RemoveIdleSkip
    \/ RemoveIdleFinish

\* Pool.healthCheckLoop.
HealthStep ==
    \/ \E w \in WorkerIds : HealthReadState(w)
    \/ HealthCheckPass
    \/ HealthCheckFailKill

\* The orchestrator serving requests on its initial pool: handlers, worker
\* processes with monitor and readiness probe, TTL sweeper and health loop.
Next ==
    \/ \E h \in Handlers : CreateStep(h) \/ GetDeleteStep(h)
    \/ \E w \in WorkerIds : WorkerStep(w)
    \/ SweeperStep
    \/ HealthStep

Spec == Init /\ [][Next]_vars

\* The monitor and the readiness probe of a worker whose process is only
\* ever killed by the orchestrator.
WorkerRunStep(w) ==
    \/ ProcReady(w)
    \/ MonitorObserveExit(w)
    \/ MonitorNotify(w)
    \/ MonitorRestart(w)
    \/ MonitorRestartFail(w)
    \/ WaitForReadyOk(w)
    \/ WaitForReadyExhaust(w)
    \/ WaitForReadyGiveUp(w)

\* handleCreateSession of a patient client whose worker either fails the
\* forward or answers with a session.
PoolCreateStep(h) ==
    \/ CreateBegin(h)
    \/ AcquireCheckAvailable(h)
    \/ AcquireCheckTotal(h)
    \/ AcquireSelect(h)
    \/ CreateForwardFail(h)
    \/ CreateForwardOk(h)
    \/ CreateSetSession(h)

\* The pool under concurrent creates: Acquire, scale-up by addWorker,
\* scale-down by scaleLoop, and the workers' own goroutines.
NextPool ==
    \/ \E h \in Handlers : PoolCreateStep(h)
    \/ AddWorkerStep
    \/ \E w \in WorkerIds : WorkerRunStep(w)
    \/ ScaleStep

SpecPool == Init /\ [][NextPool]_vars

\* handleCreateSession on workers that answer: Acquire with its context,
\* the forward, Add and SetSessionID.
AcquireCreateStep(h) ==
    \/ CreateBegin(h)
    \/ AcquireCheckAvailable(h)
    \/ AcquireCheckTotal(h)
    \/ AcquireSelect(h)
    \/ CtxDone(h)
    \/ AcquireTimeout(h)
    \/ CreateForwardOk(h)
    \/ CreateSetSession(h)

\* A starting worker: its process and its waitForReady goroutine.
WorkerBootStep(w) ==
    \/ ProcReady(w)
    \/ WaitForReadyOk(w)
    \/ WaitForReadyExhaust(w)
    \/ WaitForReadyGiveUp(w)

NextAcquire ==
    \/ \E h \in Handlers : AcquireCreateStep(h)
    \/ AddWorkerStep
    \/ \E w \in WorkerIds : WorkerBootStep(w)

\* The steps a request goroutine takes by being scheduled: everything but
\* the arrival of the request and the end of its context.
HandlerRuns(h) ==
    \/ AcquireCheckAvailable(h)
    \/ AcquireCheckTotal(h)
    \/ AcquireSelect(h)
    \/ hpc[h] = "acq_sel" /\ AcquireTimeout(h)
    \/ CreateForwardOk(h)
    \/ CreateSetSession(h)

\* The Go scheduler runs every runnable goroutine: request handlers,
\* addWorker runs and waitForReady probes all make progress.
SchedulerFairness ==
    /\ WF_vars(\E h \in Handlers : HandlerRuns(h))
    /\ WF_vars(AddWorkerStep)
    /\ WF_vars(\E w \in WorkerIds : WorkerBootStep(w))

\* Concurrent creates against a pool that scales up, under a fair scheduler.
\* Clients keep the sessions they were given: no DELETE arrives and every
\* session is read often enough never to reach its TTL.
SpecAcquire == Init /\ [][NextAcquire]_vars /\ SchedulerFairness

\* A worker whose process ends only when the orchestrator kills it: the
\* process, the monitor up to its decision about a restart, and waitForReady.
WorkerKilledStep(w) ==
    \/ ProcReady(w)
    \/ MonitorObserveExit(w)
    \/ MonitorNotify(w)
    \/ WaitForReadyOk(w)
    \/ WaitForReadyExhaust(w)
    \/ WaitForReadyGiveUp(w)

NextShutdown ==
    \/ \E h \in Handlers : AcquireCreateStep(h)
    \/ AddWorkerStep
    \/ \E w \in WorkerIds : WorkerKilledStep(w)
    \/ Shutdown

\* Pool.Shutdown arriving while creates are served and the pool scales up.
SpecShutdown == Init /\ [][NextShutdown]_vars

\* A client's requests: a create on a worker that answers, and reads of a
\* session it was given.
ClientStep(h) ==
    \/ CreateBegin(h)
    \/ AcquireCheckAvailable(h)
    \/ AcquireSelect(h)
    \/ CreateForwardOk(h)
    \/ CreateSetSession(h)
    \/ \E k \in SessionIds : GetBegin(h, k)
    \/ GetForwardOk(h)

NextTTL ==
    \/ \E h \in Handlers : ClientStep(h)
    \/ \E w \in WorkerIds : WorkerBootStep(w)
    \/ ClockTick
    \/ TimedSweep
    \/ \E e \in expired : ExpireRelease(e)

\* Sessions created and read while the clock runs and the sweeper serves
\* every tick of its ticker.
SpecTTL == Init /\ [][NextTTL]_vars

NextExpire ==
    \/ \E h \in Handlers : AcquireCreateStep(h)
    \/ AddWorkerStep
    \/ \E w \in WorkerIds : WorkerStep(w)
    \/ SweeperStep

\* Sessions left to their TTL on a pool that scales up and whose worker
\* processes may exit.
SpecExpire == Init /\ [][NextExpire]_vars

\* handleCreateSession on workers that answer, with or without a session
\* id in the body, by a client that waits.
AnsweredCreateStep(h) ==
    \/ CreateBegin(h)
    \/ AcquireCheckAvailable(h)
    \/ AcquireCheckTotal(h)
    \/ AcquireSelect(h)
    \/ CreateForwardOk(h)
    \/ CreateForwardNoId(h)
    \/ CreateSetSession(h)

\* A worker whose process may exit and whose restarts and probes succeed.
WorkerCrashStep(w) ==
    \/ ProcReady(w)
    \/ ProcExit(w)
    \/ MonitorObserveExit(w)
    \/ MonitorNotify(w)
    \/ MonitorRestart(w)
    \/ WaitForReadyOk(w)

NextScaleDown ==
    \/ \E h \in Handlers : AnsweredCreateStep(h)
    \/ AddWorkerStep
    \/ \E w \in WorkerIds : WorkerCrashStep(w)
    \/ SweeperStep
    \/ ScaleStep

\* A pool that grows under creates and is left idle once the sessions have
\* run into their TTL.
SpecScaleDown == Init /\ [][NextScaleDown]_vars

\* GET /sessions/PriorSession.
GetPriorStep(h) ==
    \/ GetMissing(h, PriorSession)
    \/ GetBegin(h, PriorSession)
    \/ GetForwardOk(h)
    \/ GetForwardFail(h)

\* DELETE /sessions/PriorSession.
DeletePriorStep(h) ==
    \/ DeleteMissing(h, PriorSession)
    \/ DeleteBegin(h, PriorSession)
    \/ \E code \in {0, 204, 404} : DeleteFinish(h, code)

\* The first request is a GET of the earlier session, the second a DELETE.
GetRequest == 1
DeleteRequest == 2

NextServing ==
    \/ GetPriorStep(GetRequest)
    \/ DeletePriorStep(DeleteRequest)
    \/ \E w \in WorkerIds : WorkerStep(w)
    \/ HealthStep

\* The client of a session reads it and deletes it, with the worker's own
\* goroutines and the health loop running.
SpecServing == InitServing /\ [][NextServing]_vars

\* A worker whose restarts succeed: the process, which may exit on its own
\* and may be slow to answer, the monitor and the readiness probe.
WorkerRecycleStep(w) ==
    \/ ProcReady(w)
    \/ ProcExit(w)
    \/ MonitorObserveExit(w)
    \/ MonitorNotify(w)
    \/ MonitorRestart(w)
    \/ WaitForReadyOk(w)
    \/ WaitForReadyExhaust(w)
    \/ WaitForReadyGiveUp(w)

NextRecycle ==
    \/ \E h \in Handlers : ClientStep(h)
    \/ \E w \in WorkerIds : WorkerRecycleStep(w)
    \/ HealthStep

\* The steps of a worker's monitor and readiness probe.
WorkerGoroutines(w) ==
    \/ MonitorObserveExit(w)
    \/ MonitorNotify(w)
    \/ MonitorRestart(w)
    \/ WaitForReadyOk(w)
    \/ WaitForReadyExhaust(w)
    \/ WaitForReadyGiveUp(w)

\* The health loop's ticker keeps firing and the goroutines of every worker
\* are scheduled; when a process answers or exits is up to the process.
RecycleFairness ==
    /\ WF_vars(HealthStep)
    /\ \A w \in WorkerIds : WF_vars(WorkerGoroutines(w))
    /\ WF_vars(\E h \in Handlers : HandlerRuns(h))

\* Workers that may be slow to start, watched by the health loop, under a
\* fair scheduler.
SpecRecycle == Init /\ [][NextRecycle]_vars /\ RecycleFairness

\* =============================================================== locking
\* The same operations seen as sequences of mutex and channel operations, in
\* the order the code performs them.  The mutexes are the pool's p.mu (a
\* RWMutex), the worker's w.mu and the SessionManager's sm.mu.
PoolMu == "p.mu"
WorkerMu == "w.mu"
SessionMu == "sm.mu"

Lock(mu) == [op |-> "Lock", mu |-> mu]
Unlock(mu) == [op |-> "Unlock", mu |-> mu]
RLock(mu) == [op |-> "RLock", mu |-> mu]
RUnlock(mu) == [op |-> "RUnlock", mu |-> mu]
Send == [op |-> "send", mu |-> "available"]
Recv == [op |-> "recv", mu |-> "available"]

\* Pool.Release: a non-blocking send, no mutex.
ReleaseLocks == <<Send>>

\* Worker.Start: w.mu from entry to return (defer).
StartLocks == <<Lock(WorkerMu), Unlock(WorkerMu)>>

\* Worker.Kill: w.mu from entry to return.
KillLocks == <<Lock(WorkerMu), Unlock(WorkerMu)>>

\* Worker.Drain: the draining flag is written under w.mu.
DrainLocks == <<Lock(WorkerMu), Unlock(WorkerMu)>>

\* Worker.SessionID: w.mu from entry to return.
SessionIDLocks == <<Lock(WorkerMu), Unlock(WorkerMu)>>

\* A SetSessionID that calls Release before it unlocks.
SetSessionIDLocksHeld(id) ==
    <<Lock(WorkerMu)>> \o (IF id = NoSession THEN ReleaseLocks ELSE <<>>) \o <<Unlock(WorkerMu)>>

\* Worker.SetSessionID: the fields under w.mu, then Release for the empty id.
SetSessionIDLocks(id) ==
    <<Lock(WorkerMu), Unlock(WorkerMu)>> \o (IF id = NoSession THEN ReleaseLocks ELSE <<>>)

\* SessionManager.Add, Get, Remove and the first phase of expireStale: sm.mu
\* from entry to return.
SessionLocks == <<Lock(SessionMu), Unlock(SessionMu)>>

\* Pool.Acquire: the read of len(workers) + pendingAdds under RLock, then the
\* select on available.
AcquireLocks == <<RLock(PoolMu), RUnlock(PoolMu), Recv>>

\* handleDeleteSession: sessions.Remove, the forward, SetSessionID("").
DeleteLocks == SessionLocks \o SetSessionIDLocks(NoSession)

\* Worker.monitor: the exit handling under w.mu, OnCrash (sessions.Remove),
\* the backoff, Start.
MonitorLocks == <<Lock(WorkerMu), Unlock(WorkerMu)>> \o SessionLocks \o StartLocks

\* Pool.FindBySession: the scan under RLock, w.SessionID() for each worker.
FindBySessionLocks == <<RLock(PoolMu)>> \o SessionIDLocks \o <<RUnlock(PoolMu)>>

\* Pool.removeIdleWorker: the receive, the removal under p.mu, Drain, Kill.
RemoveIdleWorkerLocks == <<Recv, Lock(PoolMu), Unlock(PoolMu)>> \o DrainLocks \o KillLocks

\* Pool.Shutdown: p.mu from entry to return, Drain and Kill inside.
ShutdownLocks == <<Lock(PoolMu)>> \o DrainLocks \o KillLocks \o <<Unlock(PoolMu)>>

\* SessionManager.expireStale: the lock section, then for an expired entry
\* the forward and SetSessionID("").
ExpireStaleLocks == SessionLocks \o SetSessionIDLocks(NoSession)

\* The operations of goroutine g.
Script(g) ==
    CASE g = "Acquire" -> AcquireLocks
      [] g = "handleDeleteSession" -> DeleteLocks
      [] g = "monitor" -> MonitorLocks
      [] g = "FindBySession" -> FindBySessionLocks
      [] g = "removeIdleWorker" -> RemoveIdleWorkerLocks
      [] g = "Shutdown" -> ShutdownLocks
      [] g = "expireStale" -> ExpireStaleLocks

\* The mutexes held, each with its mode, after the first n operations.
RECURSIVE HeldAfter(_, _)
HeldAfter(ops, n) ==
    IF n = 0 THEN {}
    ELSE LET h == HeldAfter(ops, n - 1)
             o == ops[n]
         IN  IF o.op \in {"Lock", "RLock"} THEN h \cup {<<o.mu, o.op>>}
             ELSE IF o.op = "Unlock" THEN h \ {<<o.mu, "Lock">>}
             ELSE IF o.op = "RUnlock" THEN h \ {<<o.mu, "RLock">>}
             ELSE h

Held(g) == HeldAfter(Script(g), lpc[g] - 1)
Finished(g) == lpc[g] > Len(Script(g))
NextOp(g) == Script(g)[lpc[g]]

\* sync.Mutex and sync.RWMutex: Lock waits until nobody holds the mutex (the
\* caller included: the mutexes are not reentrant), RLock until no writer does.
LockFree(g) ==
    IF NextOp(g).op = "Lock"
    THEN \A f \in Goroutines : \A m \in Held(f) : m[1] # NextOp(g).mu
    ELSE \A f \in Goroutines : <<NextOp(g).mu, "Lock">> \notin Held(f)

Advance(g) ==
    /\ lpc' = [lpc EXCEPT ![g] = @ + 1]
    /\ UNCHANGED <<poolVars, workerVars, smVars, handlerVars, loopVars, crashes,
                   shutdown, timeVars>>

\* mu.Lock() or mu.RLock() returns.
LockAcquire(g) ==
    /\ ~Finished(g)
    /\ NextOp(g).op \in {"Lock", "RLock"}
    /\ LockFree(g)
    /\ Advance(g)

\* mu.Unlock() or mu.RUnlock().
LockRelease(g) ==
    /\ ~Finished(g)
    /\ NextOp(g).op \in {"Unlock", "RUnlock"}
    /\ Advance(g)

\* A select on available completes: Release's send (or its default),
\* removeIdleWorker's receive (or its default), Acquire's receive (or its
\* ctx.Done()).
ChannelOp(g) ==
    /\ ~Finished(g)
    /\ NextOp(g).op \in {"send", "recv"}
    /\ Advance(g)

NextLocks ==
    \E g \in Goroutines :
        \/ LockAcquire(g)
        \/ LockRelease(g)
        \/ ChannelOp(g)

\* One run of each operation, interleaved at every mutex and channel operation.
SpecLocks == Init /\ [][NextLocks]_vars

\* ================================================================ claims
\* C1. No overshoot: len(workers) + pendingAdds never exceeds max, under any
\* interleaving of Acquire, addWorker (successful or failing) and
\* removeIdleWorker.
NoOvershoot == Len(workers) + pendingAdds <= MaxW

\* C1 witness: the pool is full by a reservation while a second addWorker
\* goroutine, launched by a concurrent Acquire, is still to take the lock.
NoOvershootWitness ==
    /\ pendingAdds > 0
    /\ Len(workers) + pendingAdds = MaxW
    /\ addSpawned > 0

\* No handler, sweeper or monitor step is in progress, and no process exit
\* is waiting to be observed by its monitor.
Quiescent ==
    /\ \A h \in Handlers : hpc[h] \in {"new", "done"}
    /\ expired = {}
    /\ \A w \in WorkerIds : mpc[w] \notin {"exited", "sleep"}
    /\ \A w \in WorkerIds : mpc[w] = "wait" => alive[w]

\* C2. At-most-one-session: in every quiescent state a worker's session id
\* is empty or is a key of the SessionManager whose entry points back to the
\* worker, and every entry S -> W has W.sessionID = S.
AtMostOneSession ==
    Quiescent =>
        /\ \A w \in WorkerIds :
              sessionID[w] # NoSession =>
                  HasSession(sessionID[w]) /\ sessions[sessionID[w]].worker = w
        /\ \A k \in SessionKeys :
              HasSession(k) => sessionID[sessions[k].worker] = k

\* C3. A worker appears in the available channel at most once.
AvailableNoDuplicates == \A w \in WorkerIds : Count(available, w) <= 1

AvailableOnlyIdle ==
    \A w \in WorkerIds :
        InAvailable(w) => (state[w] = WorkerStateAvailable /\ sessionID[w] = NoSession)

\* C6. A worker's state is Busy iff its session id is non-empty.
BusyIffSession ==
    \A w \in WorkerIds : (state[w] = WorkerStateBusy) <=> (sessionID[w] # NoSession)

\* C7. Every worker in available is a member of p.workers.
AvailableSubsetWorkers == Range(available) \subseteq Range(workers)

\* Positions of a request inside Pool.Acquire.
AcquirePcs == {"acq", "acq_total", "acq_sel", "acq_blocked"}

AcquireOutcomes ==
    [][\A h \in Handlers :
          /\ (hpc[h] \in AcquirePcs /\ hpc'[h] \notin AcquirePcs) =>
                \/ /\ hpc'[h] = "fwd"
                   /\ \/ /\ hpc[h] = "acq_sel"
                         /\ available # <<>>
                         /\ hw'[h] = Head(available)
                         /\ available' = Tail(available)
                      \/ /\ hpc[h] = "acq_blocked"
                         /\ hw'[h] # NoWorker
                         /\ available' = available
                \/ /\ hpc'[h] = "done"
                   /\ hresp'[h] = 503
                   /\ hw'[h] = NoWorker
                   /\ available' = available
          /\ (hpc[h] \in AcquirePcs /\ ctxDone[h]) => hpc'[h] # "fwd"
          /\ (hpc[h] \in AcquirePcs \ {"acq_blocked"} /\ hpc'[h] # hpc[h]) =>
                (state' = state /\ sessionID' = sessionID)]_vars

\* C9 as amended. Every Acquire ends by returning a worker it removed from
\* available (the head of the buffer, or the worker a send handed to it), or
\* by the timeout error with available as it was and no worker taken, and
\* the timeout error is returned only when the context is done; Acquire's
\* own steps change no worker's state or session id.  (An Acquire whose
\* context is done may still return a worker that is in available when
\* it reaches its select.)
AcquireOutcomesAmended ==
    [][\A h \in Handlers :
          /\ (hpc[h] \in AcquirePcs /\ hpc'[h] \notin AcquirePcs) =>
                \/ /\ hpc'[h] = "fwd"
                   /\ \/ /\ hpc[h] = "acq_sel"
                         /\ available # <<>>
                         /\ hw'[h] = Head(available)
                         /\ available' = Tail(available)
                      \/ /\ hpc[h] = "acq_blocked"
                         /\ hw'[h] # NoWorker
                         /\ available' = available
                \/ /\ hpc'[h] = "done"
                   /\ hresp'[h] = 503
                   /\ hw'[h] = NoWorker
                   /\ available' = available
                   /\ ctxDone'[h]
          /\ (hpc[h] \in AcquirePcs \ {"acq_blocked"} /\ hpc'[h] # hpc[h]) =>
                (state' = state /\ sessionID' = sessionID)]_vars

\* C9 witness: one Acquire has returned the timeout error while a worker
\* was in available, and another, its context done, has returned a worker.
AcquireOutcomesWitness ==
    /\ \E h \in Handlers : hpc[h] = "done" /\ hresp[h] = 503 /\ available # <<>>
    /\ \E h \in Handlers : hpc[h] = "fwd" /\ hw[h] # NoWorker /\ ctxDone[h]

\* C10. Crash cleanup: once the monitor of a worker whose process has
\* exited is past its crash callback, no entry for a session points to that
\* worker any more.
CrashCleanup ==
    \A k \in SessionIds :
        (HasSession(k) /\ ~alive[sessions[k].worker])
            => mpc[sessions[k].worker] \in {"wait", "exited"}

\* C11. Per process exit OnCrash runs at most once, only for a session the
\* worker held when the monitor set it Dead, and with that session id: the
\* monitor enters its exit handling only from waiting on a child that has
\* exited, reading and clearing the session in the step that sets Dead; the
\* step that leaves the exit handling removes exactly the session read, or
\* nothing if none was read; and the monitor waits again only on a new child.
OnCrashOncePerExit ==
    [][\A w \in WorkerIds :
          /\ (mpc[w] # "exited" /\ mpc'[w] = "exited") =>
                /\ mpc[w] = "wait" /\ ~alive[w]
                /\ prevSession'[w] = sessionID[w]
                /\ state'[w] = WorkerStateDead
                /\ sessionID'[w] = NoSession
          /\ (mpc[w] = "exited" /\ mpc'[w] # "exited") =>
                /\ sessions' = IF prevSession[w] # NoSession
                               THEN [sessions EXCEPT ![prevSession[w]] = NoEntry]
                               ELSE sessions
                /\ prevSession'[w] = NoSession
                /\ mpc'[w] # "wait"
          /\ (mpc[w] # "wait" /\ mpc'[w] = "wait") => (~alive[w] /\ alive'[w])]_vars

\* C11 witness: a worker's monitor has set it Dead, has read a non-empty
\* session that is still registered, and is about to call OnCrash with it.
OnCrashOncePerExitWitness ==
    \E w \in WorkerIds :
        /\ mpc[w] = "exited"
        /\ prevSession[w] # NoSession
        /\ HasSession(prevSession[w])

\* C12. Crash recovery: while the monitor of a worker that is not draining
\* sits in its backoff after the child's exit, the worker stays in a state
\* from which Start spawns a new child (Dead or Unhealthy), also when a
\* handler or the sweeper calls SetSessionID on it meanwhile.
CrashRecovery ==
    \A w \in WorkerIds : (mpc[w] = "sleep" /\ ~draining[w]) => StartAllowed(w)

\* Every goroutine of the pool and of its workers has come to rest: no
\* addWorker run is in flight, no monitor is between an exit and its decision
\* about a restart, no readiness probe is running.
ShutdownSettled ==
    /\ shutdown
    /\ addSpawned = 0
    /\ \A w \in WorkerIds :
          /\ apc[w] \in {"none", "done"}
          /\ mpc[w] \notin {"exited", "sleep"}
          /\ mpc[w] = "wait" => alive[w]
          /\ wfrProbing[w] = 0 /\ wfrGaveUp[w] = 0

\* C13. No undershoot during shutdown: once Shutdown has returned and every
\* monitor and every in-flight addWorker has come to rest, no worker has a
\* live child process.
NoUndershootAfterShutdown ==
    ShutdownSettled => \A w \in WorkerIds : ~alive[w]

\* The sweeper's step evicts the entry of key k.
Evicts(k) == HasSession(k) /\ ~HasSession(k)' /\ lastSweep' # lastSweep

\* Seconds since the last access of key k.
SinceAccess(k) == clock - accessed[k]

\* A Get that finds key k sets its last access to now, which is never
\* earlier than the last access it replaces.
GetRefreshes(k) ==
    (HasSession(k) /\ accessed'[k] # accessed[k])
        => (accessed'[k] = clock /\ accessed'[k] > accessed[k])

Released(w) ==
    \/ InAvailable(w)'
    \/ \E h \in Handlers : hpc[h] = "acq_blocked" /\ hw'[h] = w

\* C15. TTL release: from the sweep that deletes it on, an expired session is
\* absent, and when the sweeper has dealt with its worker the worker holds no
\* session, is Available and has been passed to the available channel.
TTLRelease ==
    [][\A e \in expired :
          e[1] \in SessionIds =>
          /\ ~HasSession(e[1])
          /\ e \notin expired' =>
                /\ sessionID'[e[2]] = NoSession
                /\ state'[e[2]] = WorkerStateAvailable
                /\ Released(e[2])]_vars

\* The idle condition of scaleLoop holds now.
IdleNow == Len(available) > 0 /\ Len(workers) > MinW

\* What holds of the consecutive-tick counter in every state: it is 0 or 1
\* between ticks, 0 while removeIdleWorker runs, and a tick at which the idle
\* condition fails leaves it 0.
IdleTicksReset ==
    /\ idleTicks \in {0, 1}
    /\ spc # "tick" => idleTicks = 0
    /\ ~IdleNow => IdleTicksAfterTick = 0

\* C16. Scale-down anti-thrash: removeIdleWorker is called only on a tick at
\* which the idle condition holds and which follows a tick at which it held
\* with no failing tick in between (the counter stands at 1); the counter
\* reaches 1 only from 0 on an idle tick, is back at 0 after the call and
\* after every tick at which the condition fails; and the set of workers
\* shrinks only by one worker, inside that call.
AntiThrash ==
    [][/\ IdleTicksReset /\ IdleTicksReset'
       /\ (spc = "tick" /\ spc' = "remove") => (idleTicks = 1 /\ IdleNow /\ idleTicks' = 0)
       /\ idleTicks' > idleTicks => (spc = "tick" /\ IdleNow /\ idleTicks = 0)
       /\ idleTicks' < idleTicks => (~IdleNow \/ spc' = "remove")
       /\ Len(workers') < Len(workers) =>
             (spc = "drain" /\ spc' = "tick" /\ Len(workers') = Len(workers) - 1)]_vars

\* C16 witness: after two consecutive idle ticks removeIdleWorker has popped
\* a worker of a pool above its minimum and is about to remove it.
AntiThrashWitness ==
    /\ spc = "drain"
    /\ rmw \in Range(workers)
    /\ Len(workers) > MinW

\* C17. Scale-down floor: the pool never has fewer than min workers.
ScaleDownFloor == Len(workers) >= MinW

\* C17 witness: scale-down has removed a worker, drained it, and the pool
\* stands at exactly min workers.
ScaleDownFloorWitness ==
    /\ Len(workers) = MinW
    /\ \E w \in WorkerIds : draining[w] /\ w \notin Range(workers)

\* The pool has been left idle for good: every request has been answered,
\* every session has ended, every worker of the pool is healthy and has been
\* released (Available, no session), and no goroutine of the pool or of a
\* worker has a step left to take but the ticks of scaleLoop, which change
\* nothing any more.
PoolIdleForGood ==
    /\ \A h \in Handlers : hpc[h] \in {"new", "done"}
    /\ \A w \in Range(workers) :
          alive[w] /\ ready[w] /\ state[w] = WorkerStateAvailable
    /\ \A k \in SessionKeys : ~HasSession(k)
    /\ expired = {}
    /\ addSpawned = 0
    /\ \A w \in WorkerIds :
          /\ sessionID[w] = NoSession
          /\ apc[w] \in {"none", "done"}
          /\ mpc[w] \notin {"exited", "sleep"}
          /\ mpc[w] = "wait" => alive[w]
          /\ wfrProbing[w] = 0 /\ wfrGaveUp[w] = 0
    /\ spc = "tick"
    /\ IdleTicksAfterTick = idleTicks

\* C18. Scale-down liveness: a pool that has grown above min and whose
\* workers have all been released, with no Acquire arriving, shrinks to min:
\* it is not left idle for good with more than min workers.
ScaleDownLiveness ==
    PoolIdleForGood => Len(workers) = MinW

\* An addWorker run is launched or holds a reservation.
ScaleUpInFlight == addSpawned > 0 \/ pendingAdds > 0

\* C19. Scale-up under load: an Acquire blocked on an empty available while
\* the pool is below max, no scale-up having failed, has a scale-up in flight
\* (so that the pool grows to max and the create is served).
ScaleUpUnderLoad ==
    \A h \in Handlers :
        (/\ hpc[h] = "acq_blocked"
         /\ Len(available) = 0
         /\ Len(workers) < MaxW
         /\ \A w \in WorkerIds : apc[w] \notin {"failed", "spawnfailed"})
            => ScaleUpInFlight

\* C20. Slot held for the session's lifetime: the worker of a session the
\* SessionManager holds is not in the available channel.
SlotHeld ==
    \A k \in SessionIds :
        HasSession(k) => sessions[k].worker \notin Range(available)

\* Positions of a create inside Pool.Acquire.
InAcquire(h) == hpc[h] \in {"acq", "acq_total", "acq_sel", "acq_blocked"}

\* What one step may do to the create of handler h.
CreateRetryStep(h) ==
    \* an attempt fails: the worker is killed, nothing is registered, and the
    \* third failure answers 502
    /\ (hpc[h] = "fwd" /\ hpc'[h] \notin {"fwd", "setsid"}) =>
          /\ attempt'[h] = attempt[h] + 1
          /\ attempt'[h] <= maxCreateRetries
          /\ ~alive'[hw[h]]
          /\ sessions' = sessions
          /\ sessionID' = sessionID
          /\ IF attempt'[h] = maxCreateRetries
             THEN hpc'[h] = "done" /\ hresp'[h] = 502
             ELSE hpc'[h] = "acq" /\ hresp'[h] = 0
    \* Acquire ends without a worker: 503
    /\ (InAcquire(h) /\ hpc'[h] = "done") =>
          /\ hresp'[h] = 503
          /\ sessions' = sessions
    \* the first success registers one mapping id -> worker
    /\ (hpc[h] = "fwd" /\ hpc'[h] = "setsid") =>
          /\ attempt[h] < maxCreateRetries
          /\ sessions'[hsid'[h]].worker = hw[h]
          /\ \A k \in SessionKeys \ {hsid'[h]} : sessions'[k] = sessions[k]
    \* and sets the worker's session to id
    /\ (hpc[h] = "setsid" /\ hpc'[h] # "setsid") =>
          /\ sessionID'[hw[h]] = hsid[h]
          /\ sessions' = sessions
          /\ hpc'[h] = "done"
          /\ hresp'[h] \notin {0, 502, 503}

GetFailed == hpc[GetRequest] = "done" /\ hresp[GetRequest] = 404

\* C22. Get failure policy: a GET whose forward fails removes the mapping,
\* kills the worker and answers 404; from then on Get finds no entry, and the
\* monitor of the killed worker does not end without restarting it.
GetFailurePolicy ==
    GetFailed =>
        /\ ~HasSession(PriorSession)
        /\ \A w \in Range(workers) : mpc[w] # "refused"

\* What one step may do to the DELETE served by handler h.
DeleteStepPolicy(h) ==
    \* the mapping is gone before the forward
    /\ hpc'[h] = "delfwd" => sessions'[hsid'[h]].worker = NoWorker
    \* whatever the forward does: 204, and SetSessionID("") on the worker
    /\ (hpc[h] = "delfwd" /\ hpc'[h] # "delfwd") =>
          /\ hresp'[h] = 204
          /\ sessionID'[hw[h]] = NoSession
          /\ state'[hw[h]] = WorkerStateAvailable

NewWorkerStarting(w) == apc[w] \in {"append", "done"} /\ state[w] = WorkerStateStarting

\* A step pushes a worker to available: a readiness probe succeeds, or an
\* expired or deleted session lets go of its worker.
PushStep ==
    \/ \E w \in WorkerIds : wfrProbing'[w] < wfrProbing[w] /\ wfrGaveUp' = wfrGaveUp
    \/ expired' # expired /\ expired' \subseteq expired
    \/ \E h \in Handlers : hpc[h] = "delfwd" /\ hpc'[h] = "done"

\* A worker added by a scale-up that is up, idle, and in nobody's hands.
NewWorkerIdle(w) ==
    /\ apc[w] = "done"
    /\ state[w] = WorkerStateAvailable /\ sessionID[w] = NoSession
    /\ alive[w] /\ ready[w] /\ wfrProbing[w] = 0
    /\ \A h \in Handlers : hw[h] # w
    /\ rmw # w /\ ~draining[w]

\* C24. An Acquire that waits on a scale-up is not bound to the new worker:
\* a worker pushed to available while the new one is not ready is returned
\* by the waiting Acquire, and the new worker, once ready and idle, is in
\* available for a later caller.
ScaleUpNotBound ==
    /\ [][\A h \in Handlers :
            (/\ recvq = <<h>> /\ PushStep
             /\ \E w \in WorkerIds :
                    NewWorkerStarting(w) /\ state'[w] = WorkerStateStarting)
                => (hpc'[h] = "fwd" /\ state'[hw'[h]] # WorkerStateStarting)]_vars
    /\ [](\A w \in WorkerIds : NewWorkerIdle(w) => InAvailable(w))

\* A step in which the addWorker run that owns id w fails after its
\* reservation.
ScaleUpFails(w) ==
    apc[w] \in {"port", "start"} /\ apc'[w] \in {"failed", "spawnfailed"}

\* C25. Scale-up failure: when port allocation or spawn fails after the
\* reservation, pendingAdds goes down by exactly one, workers and available
\* are unchanged and no request is answered or woken by it; a waiting
\* Acquire leaves its wait only with a released worker or with the timeout
\* of its context.
ScaleUpFailure ==
    [][/\ \A w \in WorkerIds :
            ScaleUpFails(w) =>
                /\ pendingAdds' = pendingAdds - 1
                /\ pendingAdds' >= 0
                /\ workers' = workers
                /\ available' = available
                /\ recvq' = recvq
                /\ hpc' = hpc /\ hresp' = hresp /\ hw' = hw
       /\ \A h \in Handlers :
            (hpc[h] = "acq_blocked" /\ hpc'[h] # "acq_blocked") =>
                \/ hpc'[h] = "fwd" /\ hw'[h] \in WorkerIds /\ hresp'[h] = 0
                \/ hpc'[h] = "done" /\ hresp'[h] = 503]_vars

\* C25 witness: a scale-up has failed, its reservation is given back, and
\* the Acquire that waits is still waiting.
ScaleUpFailureWitness ==
    /\ \E w \in WorkerIds : apc[w] \in {"failed", "spawnfailed"}
    /\ pendingAdds = 0
    /\ \E h \in Handlers : hpc[h] = "acq_blocked" /\ hresp[h] = 0

\* A step in which Start spawns a process for w: it launches a waitForReady.
StartSpawns(w) == wfrProbing'[w] = wfrProbing[w] + 1

\* A step in which Start returns "already running" to the monitor of w.
StartRefuses(w) == mpc[w] = "sleep" /\ mpc'[w] = "refused"

\* C26. Start succeeds only from Dead or Unhealthy; in any other state it
\* returns an error, spawns nothing and leaves state, session id and cmd
\* as they are; a successful Start sets the state to Starting and clears
\* the session id.
StartGuard ==
    [][\A w \in WorkerIds :
        /\ StartSpawns(w) =>
              /\ state[w] \in {WorkerStateDead, WorkerStateUnhealthy}
              /\ state'[w] = WorkerStateStarting
              /\ sessionID'[w] = NoSession
              /\ cmd'[w] /\ alive'[w]
        /\ StartRefuses(w) =>
              /\ state[w] \in {WorkerStateStarting, WorkerStateAvailable, WorkerStateBusy}
              /\ state'[w] = state[w]
              /\ sessionID'[w] = sessionID[w]
              /\ cmd'[w] = cmd[w] /\ alive'[w] = alive[w]
              /\ wfrProbing'[w] = wfrProbing[w]]_vars

\* C26 witness: a monitor's Start was refused on a worker that a handler had
\* set Busy, and the worker is left without a process.
StartGuardWitness ==
    \E w \in WorkerIds :
        /\ mpc[w] = "refused"
        /\ state[w] = WorkerStateBusy
        /\ ~alive[w]

UnhealthyNotTrap ==
    \A w \in WorkerIds :
        (state[w] = WorkerStateUnhealthy) ~> (state[w] # WorkerStateUnhealthy)

\* A step in which request h is answered at once, with no forward.
AnsweredAtOnce(h) ==
    /\ hpc[h] = "new" /\ hpc'[h] = "new"
    /\ <<hresp'[h], hsid'[h]>> # <<hresp[h], hsid[h]>>

\* C29. Get of an id that has no entry answers 404 and leaves the
\* SessionManager, every worker's state and session id and the available
\* channel unchanged; nothing is forwarded to a worker.
GetAbsentFrame ==
    [][\A h \in Handlers :
        AnsweredAtOnce(h) =>
            /\ hresp'[h] = 404
            /\ ~HasSession(hsid'[h])
            /\ sessions' = sessions /\ expired' = expired /\ accessed' = accessed
            /\ state' = state /\ sessionID' = sessionID
            /\ alive' = alive /\ ready' = ready
            /\ available' = available /\ recvq' = recvq
            /\ hw'[h] = NoWorker]_vars

\* C29 witness: a GET of the earlier session, deleted in the meantime, has
\* been answered 404 while the worker it lived on waits in available.
GetAbsentFrameWitness ==
    /\ hpc[GetRequest] = "new" /\ hresp[GetRequest] = 404
    /\ hsid[GetRequest] = PriorSession
    /\ ~HasSession(PriorSession)
    /\ available # <<>>

\* C30. The scale-down path removes only idle workers: the worker that
\* removeIdleWorker has taken from available holds no session and is the
\* target of no SessionManager entry.
ScaleDownOnlyIdle ==
    rmw # NoWorker =>
        /\ sessionID[rmw] = NoSession
        /\ \A k \in SessionKeys : sessions[k].worker # rmw

\* A step in which the health loop's Kill ends the process of worker w.
HealthKills(w) == hlcur = w /\ hlcur' = NoWorker /\ alive[w] /\ ~alive'[w]

\* C31. The health loop kills a worker's process only when the worker is
\* neither Starting nor Dead at the moment of the kill: a process started
\* again between the loop's state read and its Kill is not killed by it.
HealthKillsOnlyRunning ==
    [][\A w \in WorkerIds :
          HealthKills(w) => state[w] \notin {WorkerStateStarting, WorkerStateDead}]_vars

\* A step in which the state of worker w goes from a to b.
Moves(w, a, b) == state[w] = a /\ state'[w] = b

\* A step in which the readiness probe of worker w succeeds.
ReadinessSuccess(w) == wfrProbing'[w] = wfrProbing[w] - 1 /\ wfrGaveUp' = wfrGaveUp

\* C32. Worker state transitions follow the lifecycle table: Available is
\* entered only from Starting, by a successful readiness probe, or from Busy;
\* Busy only from Available; Unhealthy only from Starting; Starting only from
\* Dead or Unhealthy; in particular no SetSessionID moves a Dead or Starting
\* worker to Available or Busy.
LifecycleTable ==
    [][\A w \in WorkerIds :
          /\ (state'[w] = WorkerStateAvailable /\ state[w] # WorkerStateAvailable) =>
                \/ Moves(w, WorkerStateStarting, WorkerStateAvailable) /\ ReadinessSuccess(w)
                \/ Moves(w, WorkerStateBusy, WorkerStateAvailable)
          /\ (state'[w] = WorkerStateBusy /\ state[w] # WorkerStateBusy) =>
                Moves(w, WorkerStateAvailable, WorkerStateBusy)
          /\ (state'[w] = WorkerStateUnhealthy /\ state[w] # WorkerStateUnhealthy) =>
                Moves(w, WorkerStateStarting, WorkerStateUnhealthy)
          /\ (state'[w] = WorkerStateStarting /\ state[w] # WorkerStateStarting) =>
                state[w] \in {WorkerStateDead, WorkerStateUnhealthy}]_vars

\* Removers of the entry of key k in one step: the delete handler, whose
\* Remove returns the worker; the sweeper, which collects the entry; the
\* cleanup of a GET whose forward failed; and the crash callback.
DeleteObtains(h, k) ==
    hpc[h] = "new" /\ hpc'[h] = "delfwd" /\ hsid'[h] = k /\ hw'[h] = sessions[k].worker
SweeperObtains(k) ==
    <<k, sessions[k].worker>> \in expired' /\ <<k, sessions[k].worker>> \notin expired
CleanupRemoves(h, k) ==
    hpc[h] = "getfwd" /\ hpc'[h] = "done" /\ hresp'[h] = 404 /\ hsid[h] = k
CrashRemoves(w, k) ==
    mpc[w] = "exited" /\ mpc'[w] # "exited" /\ prevSession[w] = k /\ k # NoSession

\* The number of removers that act on key k in the step.
Removers(k) ==
    Cardinality({h \in Handlers : DeleteObtains(h, k) \/ CleanupRemoves(h, k)})
    + Cardinality({w \in WorkerIds : CrashRemoves(w, k)})
    + (IF SweeperObtains(k) THEN 1 ELSE 0)

\* The Add calls of the step that put a new key into the map.
Adds == {h \in Handlers : hpc[h] = "fwd" /\ hpc'[h] = "setsid" /\ ~HasSession(hsid'[h])}

\* C33. Remove has exactly one winner: the entry of a key leaves the map in
\* the step of exactly one remover (delete handler, GET cleanup, crash
\* callback or sweeper), which is the only one handed its worker; a remover
\* that comes when the key is absent gets no worker and leaves the map as it
\* is; and Count changes only by one up for an Add of a new key and one down
\* for each entry a remover took.
RemoveOneWinner ==
    [][/\ \A k \in SessionKeys :
            /\ (HasSession(k) /\ ~HasSession(k)') => Removers(k) = 1
            /\ ~HasSession(k) =>
                  /\ \A h \in Handlers : ~DeleteObtains(h, k)
                  /\ ~SweeperObtains(k)
                  /\ Removers(k) > 0 => sessions' = sessions
            /\ \A h \in Handlers :
                  DeleteObtains(h, k) => (HasSession(k) /\ ~HasSession(k)')
            /\ SweeperObtains(k) => (HasSession(k) /\ ~HasSession(k)')
       /\ SessionCount' = SessionCount + Cardinality(Adds)
              - Cardinality({k \in SessionKeys : HasSession(k) /\ Removers(k) > 0})]_vars

\* C33 witness: the delete handler has taken the entry of a session and its
\* worker, and the crash callback of that worker is about to call Remove
\* with the same id.
RemoveOneWinnerWitness ==
    \E h \in Handlers : \E w \in WorkerIds :
        /\ hpc[h] = "delfwd" /\ hw[h] = w
        /\ mpc[w] = "exited" /\ prevSession[w] = hsid[h]
        /\ ~HasSession(hsid[h])

\* A step in which the entry of key k leaves the map and no handler and no
\* crash callback has removed it: the sweeper has deleted it.
SweeperDeletes(k) ==
    /\ HasSession(k) /\ ~HasSession(k)'
    /\ \A h \in Handlers : ~DeleteObtains(h, k) /\ ~CleanupRemoves(h, k)
    /\ \A w \in WorkerIds : ~CrashRemoves(w, k)

\* What a step of the sweeper may touch: the step that deletes entries from
\* the map (the lock section) collects each of them with its worker and
\* touches no worker and no channel; a step that deals with a collected entry
\* (the forward and SetSessionID("")) leaves the map alone.
TwoPhaseStep ==
    /\ (\E k \in SessionKeys : SweeperDeletes(k)) =>
          /\ \A k \in SessionKeys :
                (HasSession(k) /\ ~HasSession(k)') => <<k, sessions[k].worker>> \in expired'
          /\ state' = state /\ sessionID' = sessionID
          /\ alive' = alive /\ ready' = ready
          /\ available' = available /\ recvq' = recvq
    /\ (expired' # expired /\ expired' \subseteq expired) =>
          /\ sessions' = sessions
          /\ \A e \in expired \ expired' :
                sessionID'[e[2]] = NoSession /\ state'[e[2]] = WorkerStateAvailable

\* The SessionManager call that request h is about to make can be made now:
\* the Add of a create, the Get of a GET, the Remove of a DELETE or of a GET
\* whose forward failed.
SessionCallEnabled(h) ==
    /\ (hpc[h] = "fwd" /\ alive[hw[h]] /\ ready[hw[h]]) => ENABLED CreateForwardOk(h)
    /\ hpc[h] = "getfwd" => ENABLED GetForwardFail(h)
    /\ hpc[h] = "new" =>
          \A k \in SessionIds :
              (Issued(k) \/ ~HasSession(k)) =>
                  /\ ENABLED (GetBegin(h, k) \/ GetMissing(h, k))
                  /\ ENABLED (DeleteBegin(h, k) \/ DeleteMissing(h, k))

\* C34. Two-phase eviction: the sweeper deletes expired entries in its lock
\* section and does the DELETE forward and SetSessionID("") of each entry
\* afterwards, outside the lock, so that while the sweeper still has a
\* forward to make every Get, Add or Remove of a request can go ahead.
TwoPhaseEviction ==
    /\ [][TwoPhaseStep]_vars
    /\ [](expired # {} => \A h \in Handlers : SessionCallEnabled(h))

\* C34 witness: the sweeper has collected the entry of an expired session and
\* has not yet dealt with it, while a create whose worker has answered is
\* about to call Add.
TwoPhaseEvictionWitness ==
    /\ \E e \in expired : e[1] \in SessionIds
    /\ \E h \in Handlers : hpc[h] = "fwd" /\ alive[hw[h]] /\ ready[hw[h]]

\* The order in which the code nests its mutexes: a worker's mutex is taken
\* inside the pool's, and nothing is taken inside a worker's or inside the
\* SessionManager's.
LockRank(mu) == IF mu = PoolMu THEN 1 ELSE 2

\* Goroutine g waits in Lock or RLock.
WaitsForLock(g) ==
    ~Finished(g) /\ NextOp(g).op \in {"Lock", "RLock"} /\ ~LockFree(g)

\* C35. Lock discipline and deadlock freedom: no goroutine calls Release, or
\* any pool method, with a worker's mutex held; the pool mutex is not held
\* across a send or receive on available; mutexes are nested in one order
\* only; and whenever some operation has not finished, some goroutine can
\* take a step, so no interleaving deadlocks.
LockDiscipline ==
    /\ \A g \in Goroutines :
          ~Finished(g) =>
              /\ (NextOp(g).mu \in {PoolMu, "available"}) =>
                    \A m \in Held(g) : m[1] # WorkerMu
              /\ NextOp(g).op \in {"send", "recv"} =>
                    \A m \in Held(g) : m[1] # PoolMu
              /\ NextOp(g).op \in {"Lock", "RLock"} =>
                    \A m \in Held(g) : LockRank(m[1]) < LockRank(NextOp(g).mu)
    /\ (\E g \in Goroutines : ~Finished(g)) => ENABLED NextLocks

\* C35 witness: Shutdown holds the pool mutex and waits for the worker's
\* mutex, which the monitor holds, while FindBySession and removeIdleWorker
\* wait for the pool mutex.
LockDisciplineWitness ==
    /\ <<PoolMu, "Lock">> \in Held("Shutdown") /\ WaitsForLock("Shutdown")
    /\ <<WorkerMu, "Lock">> \in Held("monitor")
    /\ WaitsForLock("FindBySession")
    /\ WaitsForLock("removeIdleWorker")

\* Worker id w has been given to a worker: an initial one, or the one of an
\* addWorker run that reserved a slot.
IdTaken(w) == w < MinW \/ apc[w] # "none"

\* C36. Worker ids are unique and never reused: the initial workers hold
\* 0..min-1, nextID starts at min and only increases, every addWorker that
\* reserves a slot takes the id nextID, which no worker was given before,
\* and keeps it consumed when the scale-up fails; no id is twice in workers.
WorkerIdsUnique ==
    /\ [](/\ nextID >= MinW
          /\ \A w \in WorkerIds : IdTaken(w) <=> w < nextID
          /\ \A w \in WorkerIds : ~IdTaken(w) => (~cmd[w] /\ mpc[w] = "none")
          /\ Range(workers) \subseteq {w \in WorkerIds : IdTaken(w)}
          /\ \A i, j \in 1..Len(workers) : i # j => workers[i] # workers[j])
    /\ [][/\ nextID' >= nextID
          /\ nextID' # nextID =>
                (nextID' = nextID + 1 /\ ~IdTaken(nextID) /\ apc'[nextID] = "port")
          /\ \A w \in WorkerIds :
                /\ (apc[w] # "port" /\ apc'[w] = "port") => (w = nextID /\ ~IdTaken(w))
                /\ IdTaken(w) => IdTaken(w)']_vars

\* C36 witness: the scale-up that reserved id min has failed, and a later
\* scale-up has been given the next id and has started its worker.
WorkerIdsUniqueWitness ==
    /\ apc[MinW] \in {"failed", "spawnfailed"}
    /\ apc[MinW + 1] \in {"append", "done"}
    /\ nextID = MinW + 2

\* Create handler h holds a worker: Acquire has returned it and the handler
\* has neither set its session nor given it up.
HoldsWorker(h) == hpc[h] \in {"fwd", "setsid"} /\ hw[h] # NoWorker

\* C37. Mutual exclusion of acquisition: a worker that Acquire has returned
\* to a create handler is not returned to another while the first holds it;
\* at no time do two create handlers hold the same worker.
AcquireMutex ==
    \A h, g \in Handlers :
        (h # g /\ HoldsWorker(h) /\ HoldsWorker(g)) => hw[g] # hw[h]

\* C38. A worker removed by scale-down is gone for good: once
\* removeIdleWorker has removed and drained it, it is neither in workers nor
\* in available and has no child process, also when the removal raced with
\* the addWorker run that started it.
RemovedForGood ==
    \A w \in WorkerIds :
        (draining[w] /\ ~shutdown) =>
            /\ w \notin Range(workers)
            /\ ~InAvailable(w)
            /\ ~alive[w]

\* C39. The SessionManager never holds an entry whose key is the empty
\* string: a create whose worker answers with a body that parses but carries
\* no id registers nothing.
NoEmptyKey == ~HasSession(NoSession)

\* The addWorker runs that have reserved a slot and have not finished: past
\* the first lock section, before the decrement.
ReservedRuns == {w \in WorkerIds : apc[w] \in {"port", "start", "append"}}

\* C40. pendingAdds is never negative, equals the number of addWorker runs
\* that have reserved a slot and not yet finished, and is zero whenever no
\* addWorker is in flight.
PendingAddsExact ==
    /\ pendingAdds >= 0
    /\ pendingAdds = Cardinality(ReservedRuns)
    /\ (addSpawned = 0 /\ ReservedRuns = {}) => pendingAdds = 0

\* C40 witness: after a scale-up that failed and gave its reservation back,
\* a second run, launched by a concurrent Acquire, holds a reservation and
\* has reached its last lock section.
PendingAddsExactWitness ==
    /\ \E w \in WorkerIds : apc[w] \in {"failed", "spawnfailed"}
    /\ \E w \in WorkerIds : apc[w] = "append"
    /\ pendingAdds = 1

====
